---------------------------- MODULE Spec2Model ----------------------------
(* Reactive state engine of app/core/statemanager.ts: plain, computed and  *)
(* hybrid states, dependency capture through get(), the pending set and    *)
(* the deferred flush (processPendingStates).                              *)
(* JavaScript Sets are insertion ordered, so every Set of the source is a  *)
(* duplicate-free sequence here.  One action is one synchronous call of    *)
(* the public API, or one run of the queued flush callback.                *)
EXTENDS Integers, Sequences, FiniteSets, TLC

\* ------------------------------------------------------------------ bounds
MaxVal == 1          \* plain states hold the numbers 0..MaxVal
MaxLive == 2         \* subscriptions registered at one time, over all states
MaxPatch == 1        \* hybrid patches carry the numbers 0..MaxPatch per field
MaxImmediates == 1   \* setImmediate callbacks queued at one time

Vals == 0..MaxVal
\* the client has two callback functions to subscribe with
Callbacks == {1, 2}
PatchVals == 0..MaxPatch

\* ------------------------------------------------------------------ values
\* A JavaScript value is a primitive number, undefined, or an object with
\* number fields.
Prim(i) == [prim |-> i]
Undefined == [undef |-> TRUE]
IsObject(v) == ("prim" \notin DOMAIN v) /\ ("undef" \notin DOMAIN v)
Obj(a, b) == [x |-> a, y |-> b]
Fields == {"x", "y"}

\* structuredClone: a deep copy, the same contents in a fresh object.
structuredClone(v) == v

\* a !== b.  Two primitives differ by value.  An object stored in a node is
\* always a fresh clone, so it is never the object a compute function or a
\* caller hands in: two objects always differ.
StrictNotEqual(a, b) == IF IsObject(a) /\ IsObject(b) THEN TRUE ELSE a # b

\* { ...base, ...over }
Spread(base, over) ==
    [f \in (DOMAIN base) \cup (DOMAIN over) |->
        IF f \in DOMAIN over THEN over[f] ELSE base[f]]

\* the number a compute function takes from a value it read
Num(v) == IF "prim" \in DOMAIN v THEN v.prim
          ELSE IF "undef" \in DOMAIN v THEN 0
          ELSE (IF "x" \in DOMAIN v THEN v.x ELSE 0) + (IF "y" \in DOMAIN v THEN v.y ELSE 0)

\* ------------------------------------------------------------- client code
\* The client programs the engine is run under: which states a program
\* declares and what each compute function reads.  A computed state is
\* () => read1() + ... + readk() + add; a hybrid state is
\* () => ({ x: read1() + ... + add, y: yc }).  The field fn names the other
\* bodies a compute function can have:
\*   "gate"    () => read1() * 0 + add
\*   "switch"  () => read1() === 0 ? read1() + read2() + add : read1() + add
\*   "self"    () => { self(); return read2() + add }, reads = <<self, ...>>
\*   "nest"    () => { if (!inner) inner = createComputedState(...)[0];
\*                     return read1() + ... + add }, read1 being inner
\*   "late"    () => { if (read2) read2(); return read1() + add }, read2
\*             being a getter the client assigns after this state is created
Names == {"A", "B", "C", "D", "H", "K"}
Null == "null"

PlainDecl ==
    [kind |-> "plain", reads |-> <<>>, add |-> 0, yc |-> 0, initial |-> Obj(0, 0),
     fn |-> "sum", inner |-> Null]
ComputedDecl(reads, add) ==
    [kind |-> "computed", reads |-> reads, add |-> add, yc |-> 0, initial |-> Obj(0, 0),
     fn |-> "sum", inner |-> Null]
HybridDecl(reads, add, yc, initial) ==
    [kind |-> "hybrid", reads |-> reads, add |-> add, yc |-> yc, initial |-> initial,
     fn |-> "sum", inner |-> Null]
Body(decl, fn, inner) == [decl EXCEPT !.fn = fn, !.inner = inner]

Programs ==
    [ chain   |-> [A |-> PlainDecl,
                   B |-> ComputedDecl(<<"A">>, 5),
                   C |-> ComputedDecl(<<"B">>, 1),
                   D |-> ComputedDecl(<<"A", "C">>, 0)],
      diamond |-> [A |-> PlainDecl,
                   B |-> ComputedDecl(<<"A">>, 1),
                   C |-> ComputedDecl(<<"A">>, 2),
                   D |-> ComputedDecl(<<"B", "C">>, 0)],
      hybrid  |-> [A |-> PlainDecl,
                   H |-> HybridDecl(<<"A">>, 0, 2, Obj(1, 2))],
      const   |-> [A |-> PlainDecl,
                   K |-> ComputedDecl(<<>>, 4)],
      patched |-> [H |-> HybridDecl(<<>>, 1, 2, Obj(1, 2))],
      object  |-> [A |-> PlainDecl],
      reset   |-> [A |-> PlainDecl,
                   B |-> ComputedDecl(<<"A">>, 1)],
      cutoff  |-> [A |-> PlainDecl,
                   B |-> Body(ComputedDecl(<<"A">>, 3), "gate", Null),
                   C |-> ComputedDecl(<<"B">>, 1)],
      switch  |-> [A |-> PlainDecl,
                   B |-> PlainDecl,
                   C |-> Body(ComputedDecl(<<"A", "B">>, 0), "switch", Null)],
      nested  |-> [A |-> PlainDecl,
                   C |-> ComputedDecl(<<"A">>, 1),
                   D |-> Body(ComputedDecl(<<"C">>, 2), "nest", "C")],
      selfread |-> [A |-> PlainDecl,
                    B |-> Body(ComputedDecl(<<"B", "A">>, 1), "self", Null),
                    H |-> Body(HybridDecl(<<"H", "A">>, 0, 2, Obj(1, 2)), "self", Null)],
      mixed   |-> [A |-> PlainDecl,
                   B |-> ComputedDecl(<<"A">>, 1),
                   K |-> ComputedDecl(<<>>, 4)],
      selfsum |-> [A |-> PlainDecl,
                   B |-> Body(ComputedDecl(<<"B", "A">>, 1), "self", Null)],
      cycle   |-> [A |-> PlainDecl,
                   B |-> Body(ComputedDecl(<<"A", "C">>, 0), "late", Null),
                   C |-> ComputedDecl(<<"B">>, 1)] ]

\* programs of plain and computed states, and programs with a hybrid state
GraphPrograms == {"chain", "diamond", "const"}
HybridPrograms == {"hybrid", "patched"}
\* programs whose states hold objects the client reads, writes and mutates
ObjectPrograms == {"object", "patched"}
LoopPrograms == {"diamond", "const"}
ShapePrograms == {"cutoff", "switch", "nested", "mixed", "selfsum"}
SelfPrograms == {"selfread"}
CyclePrograms == {"cycle", "hybrid"}

VARIABLES
    prog,                \* the client program that is running
    created,             \* the states created so far
    value,               \* _value of every state
    subscribers,         \* subscribers of every state
    dependents,          \* dependents of every state
    dependencies,        \* dependencies of every computed and hybrid state
    lastDeps,            \* lastDeps of every computed and hybrid state
    manualOverride,      \* manualOverride of every hybrid state
    currentlyComputing,  \* the active computation
    pendingStates,       \* the pending set
    isProcessingPending, \* the flush-scheduled flag
    microtasks,          \* processPendingStates callbacks queued by Promise.resolve().then
    lastPatch,           \* per hybrid state and field, the latest patch value given to set
    written,             \* per plain state set since the last flush: the last value
                         \* given to set, whether set was called several times,
                         \* and whether a set changed the value
    op,                  \* the call that ran last
    calls,               \* subscriber invocations made by the last call (jest.fn mock.calls)
    recomputed,          \* recompute runs made by the last call, with the raw result
    disposed,            \* dispose runs made by the last call, with the sizes found
    events,              \* what the last call did, in order: pending marks, subscriber
                         \* calls, recompute runs, waves and enqueued dependents
    held,                \* the object the client keeps a reference to
    immediates           \* setImmediate callbacks the client has queued

vars == <<prog, created, value, subscribers, dependents, dependencies, lastDeps,
          manualOverride, currentlyComputing, pendingStates, isProcessingPending,
          microtasks, lastPatch, written, op, calls, recomputed, disposed,
          events, held, immediates>>

Decl(n) == Programs[prog][n]
Declared == DOMAIN Programs[prog]
Kind(n) == Decl(n).kind
HasRecompute(n) == Kind(n) \in {"computed", "hybrid"}
\* n is created by the compute function of another state
IsInner(n) == \E m \in Declared : Decl(m).inner = n

\* --------------------------------------------------------- ordered Sets
Range(s) == {s[i] : i \in 1..Len(s)}
SetAdd(s, e) == IF e \in Range(s) THEN s ELSE Append(s, e)
SetDelete(s, e) == SelectSeq(s, LAMBDA z : z # e)

\* The engine state an operation works on.
Engine ==
    [value |-> value, subscribers |-> subscribers, dependents |-> dependents,
     dependencies |-> dependencies, lastDeps |-> lastDeps,
     manualOverride |-> manualOverride, currentlyComputing |-> currentlyComputing,
     pendingStates |-> pendingStates, isProcessingPending |-> isProcessingPending,
     microtasks |-> microtasks, calls |-> <<>>, recomputed |-> <<>>,
     disposed |-> <<>>, events |-> <<>>]

Becomes(S) ==
    /\ value' = S.value
    /\ subscribers' = S.subscribers
    /\ dependents' = S.dependents
    /\ dependencies' = S.dependencies
    /\ lastDeps' = S.lastDeps
    /\ manualOverride' = S.manualOverride
    /\ currentlyComputing' = S.currentlyComputing
    /\ pendingStates' = S.pendingStates
    /\ isProcessingPending' = S.isProcessingPending
    /\ microtasks' = S.microtasks
    /\ calls' = S.calls
    /\ recomputed' = S.recomputed
    /\ disposed' = S.disposed
    /\ events' = S.events

\* an entry of the event log
Event(kind, n, fn, v, ctx) ==
    [kind |-> kind, node |-> n, cb |-> fn, arg |-> v, ctx |-> ctx]

\* ------------------------------------------------------------ graph edges
addDependent(S, n, dependent) ==
    [S EXCEPT !.dependents[n] = SetAdd(@, dependent)]

removeDependent(S, n, dependent) ==
    [S EXCEPT !.dependents[n] = SetDelete(@, dependent)]

\* state.addDependency(dep): a plain state adds to its dependents, a
\* computed or hybrid state adds to its dependencies.
addDependency(S, n, dep) ==
    IF Kind(n) = "plain"
    THEN [S EXCEPT !.dependents[n] = SetAdd(@, dep)]
    ELSE [S EXCEPT !.dependencies[n] = SetAdd(@, dep)]

removeDependency(S, n, dep) ==
    IF Kind(n) = "plain"
    THEN [S EXCEPT !.dependents[n] = SetDelete(@, dep)]
    ELSE [S EXCEPT !.dependencies[n] = SetDelete(@, dep)]

\* ------------------------------------------------------------------- get
\* get() returns S.value[n]; these give the engine state it leaves behind.
\* a plain get that records the dependency without the dependent
plainGetOneSided(S, n) ==
    IF S.currentlyComputing # Null
    THEN addDependency(S, S.currentlyComputing, n)
    ELSE S

plainGet(S, n) ==
    IF S.currentlyComputing # Null
    THEN addDependent(addDependency(S, S.currentlyComputing, n), n, S.currentlyComputing)
    ELSE S

\* a computed get without the test against the state itself
computedGetSelfEdge(S, n) ==
    IF S.currentlyComputing # Null
    THEN addDependent(addDependency(S, S.currentlyComputing, n), n, S.currentlyComputing)
    ELSE S

computedGet(S, n) ==
    IF S.currentlyComputing # Null /\ S.currentlyComputing # n
    THEN addDependent(addDependency(S, S.currentlyComputing, n), n, S.currentlyComputing)
    ELSE S

hybridGet(S, n) ==
    IF S.currentlyComputing # Null /\ S.currentlyComputing # n
    THEN addDependent(addDependency(S, S.currentlyComputing, n), n, S.currentlyComputing)
    ELSE S

\* return _value
getValue(S, n) == S.value[n]

get(S, n) ==
    CASE Kind(n) = "plain" -> plainGet(S, n)
      [] Kind(n) = "computed" -> computedGet(S, n)
      [] Kind(n) = "hybrid" -> hybridGet(S, n)

\* -------------------------------------------------------------- scheduler
isEqual(prevDeps, nextDeps) ==
    IF Len(prevDeps) # Len(nextDeps) THEN FALSE
    ELSE \A i \in 1..Len(prevDeps) : prevDeps[i] = nextDeps[i]

\* scheduleProcessing without the flag test: one callback per mark
scheduleProcessingAlways(S) ==
    [S EXCEPT !.isProcessingPending = TRUE, !.microtasks = @ + 1]

\* scheduleProcessing that queues the callback and leaves the flag alone
scheduleProcessingNoFlag(S) ==
    IF ~S.isProcessingPending
    THEN [S EXCEPT !.microtasks = @ + 1]
    ELSE S

scheduleProcessingLost(S) ==
    [S EXCEPT !.isProcessingPending = TRUE]

scheduleProcessing(S) ==
    IF ~S.isProcessingPending
    THEN [S EXCEPT !.isProcessingPending = TRUE, !.microtasks = @ + 1]
    ELSE S

\* markPending that adds the state and does not schedule a flush
markPendingUnscheduled(S, n) ==
    [S EXCEPT !.pendingStates = SetAdd(@, n),
              !.events = Append(@, Event("mark", n, 0, S.value[n], S.currentlyComputing))]

\* pendingStates.add(n); scheduleProcessing()
markPending(S, n) ==
    scheduleProcessing([S EXCEPT !.pendingStates = SetAdd(@, n),
                                 !.events = Append(@, Event("mark", n, 0, S.value[n], S.currentlyComputing))])

\* --------------------------------------------------------- createState.set
\* plainSet that stores the value and schedules, but forgets pendingStates.add
plainSetNoMark(S, n, newValue) ==
    IF StrictNotEqual(S.value[n], newValue)
    THEN scheduleProcessing([S EXCEPT !.value[n] = structuredClone(newValue)])
    ELSE S

\* plainSet without the comparison with the current value
plainSetAlways(S, n, newValue) ==
    markPending([S EXCEPT !.value[n] = structuredClone(newValue)], n)

\* plainSet that marks and schedules but leaves the store to the flush
plainSetLate(S, n, newValue) ==
    IF StrictNotEqual(S.value[n], newValue) THEN markPending(S, n) ELSE S

plainSet(S, n, newValue) ==
    IF StrictNotEqual(S.value[n], newValue)
    THEN markPending([S EXCEPT !.value[n] = structuredClone(newValue)], n)
    ELSE S

\* --------------------------------------------------------------- computeFn
\* The compute function of n calls the getters of Decl(n).reads in order.
RECURSIVE runReads(_, _, _)
runReads(S, reads, i) ==
    IF i > Len(reads) THEN S
    ELSE runReads(get(S, reads[i]), reads, i + 1)

RECURSIVE SumReads(_, _, _)
SumReads(S, reads, i) ==
    IF i > Len(reads) THEN 0
    ELSE Num(S.value[reads[i]]) + SumReads(S, reads, i + 1)

\* the getters computeFn of n calls in engine state S, in order
ReadsOf(S, n) ==
    CASE Decl(n).fn = "switch" /\ Num(S.value[Decl(n).reads[1]]) # 0 ->
            <<Decl(n).reads[1]>>
      [] Decl(n).fn = "late" ->
            SelectSeq(Decl(n).reads, LAMBDA m : S.value[m] # Undefined)
      [] OTHER -> Decl(n).reads

\* the reads whose results computeFn of n adds up
ValueReads(S, n) ==
    CASE Decl(n).fn = "gate" -> <<>>
      [] Decl(n).fn = "self" -> Tail(Decl(n).reads)
      [] Decl(n).fn = "late" -> <<Decl(n).reads[1]>>
      [] OTHER -> ReadsOf(S, n)

\* what computeFn of n returns in engine state S
computeFn(S, n) ==
    IF Kind(n) = "hybrid"
    THEN Obj(SumReads(S, ValueReads(S, n), 1) + Decl(n).add, Decl(n).yc)
    ELSE Prim(SumReads(S, ValueReads(S, n), 1) + Decl(n).add)

\* --------------------------------------------------------------- recompute
RECURSIVE dropFromDependencies(_, _, _, _)
dropFromDependencies(S, n, deps, i) ==
    IF i > Len(deps) THEN S
    ELSE dropFromDependencies(removeDependent(S, deps[i], n), n, deps, i + 1)

\* a recompute that clears its own dependencies and leaves the dependents
\* sets of the states it read alone
clearDependenciesOnly(S, n) == [S EXCEPT !.dependencies[n] = <<>>]

\* recompute, edge teardown: n leaves the dependents of its dependencies,
\* then dependencies.clear()
clearDependencies(S, n) ==
    [dropFromDependencies(S, n, S.dependencies[n], 1) EXCEPT !.dependencies[n] = <<>>]

\* the getter calls of computeFn of n and what it returns, run in S, where
\* the recompute has installed its context; prev is the context it found.
\* R is [S, newValue, prevComputing].
runBody(S, n, prev) ==
    [S |-> runReads(S, ReadsOf(S, n), 1),
     newValue |-> computeFn(S, n),
     prevComputing |-> prev]

\* what the log keeps of a recompute run: the raw result of computeFn, the
\* value held before the run, and whether nextDeps equalled lastDeps
RunRecord(R, n) ==
    [node |-> n, raw |-> R.newValue, old |-> R.S.value[n],
     same |-> isEqual(R.S.lastDeps[n], R.S.dependencies[n])]

\* a computed recompute that ends with currentlyComputing = null instead of
\* the context it found
computedAdoptReset(R, n) ==
    [R EXCEPT !.S =
        IF ~isEqual(R.S.lastDeps[n], R.S.dependencies[n])
        THEN [R.S EXCEPT !.value[n] = structuredClone(R.newValue),
                         !.lastDeps[n] = R.S.dependencies[n],
                         !.currentlyComputing = Null,
                         !.recomputed = Append(@, RunRecord(R, n)),
                         !.events = Append(@, Event("recompute", n, 0, R.newValue, R.prevComputing))]
        ELSE [R.S EXCEPT !.currentlyComputing = Null,
                         !.recomputed = Append(@, RunRecord(R, n)),
                         !.events = Append(@, Event("recompute", n, 0, R.newValue, R.prevComputing))]]

\* computed recompute: nextDeps against lastDeps, then the context is restored
computedAdopt(R, n) ==
    [R EXCEPT !.S =
        IF ~isEqual(R.S.lastDeps[n], R.S.dependencies[n])
        THEN [R.S EXCEPT !.value[n] = structuredClone(R.newValue),
                         !.lastDeps[n] = R.S.dependencies[n],
                         !.currentlyComputing = R.prevComputing,
                         !.recomputed = Append(@, RunRecord(R, n)),
                         !.events = Append(@, Event("recompute", n, 0, R.newValue, R.prevComputing))]
        ELSE [R.S EXCEPT !.currentlyComputing = R.prevComputing,
                         !.recomputed = Append(@, RunRecord(R, n)),
                         !.events = Append(@, Event("recompute", n, 0, R.newValue, R.prevComputing))]]

\* a computed recompute that keeps the stored value whenever the dependency
\* sequence is unchanged (memoization by dependency identity)
computedMarkMemo(R, n) == R.S

\* computed recompute: if (_value !== newValue) adopt, mark pending, schedule
computedMark(R, n) ==
    IF StrictNotEqual(R.S.value[n], R.newValue)
    THEN markPending([R.S EXCEPT !.value[n] = structuredClone(R.newValue)], n)
    ELSE R.S

\* computeFn of n, first statement: the inner state is created on the first
\* run, which runs the recompute of its creation inside the run of n
createInner(S, n) ==
    IF Decl(n).fn = "nest" /\ S.value[Decl(n).inner] = Undefined
    THEN computedMark(computedAdopt(
            runBody([clearDependencies(S, Decl(n).inner)
                        EXCEPT !.currentlyComputing = Decl(n).inner],
                    Decl(n).inner, S.currentlyComputing),
            Decl(n).inner), Decl(n).inner)
    ELSE S

\* recompute: prevComputing = currentlyComputing; currentlyComputing = n;
\* newValue = computeFn()
runComputeFn(S, n) ==
    runBody(createInner([S EXCEPT !.currentlyComputing = n], n), n, S.currentlyComputing)

\* a recompute that does not run: the value is left for a later run
computedRecomputeLazy(S, n) == S

computedRecompute(S, n) ==
    computedMark(computedAdopt(runComputeFn(clearDependencies(S, n), n), n), n)

\* hybrid recompute: nextDeps against lastDeps, then the context is restored
hybridSnapshot(R, n) ==
    [R EXCEPT !.S =
        IF ~isEqual(R.S.lastDeps[n], R.S.dependencies[n])
        THEN [R.S EXCEPT !.lastDeps[n] = R.S.dependencies[n],
                         !.currentlyComputing = R.prevComputing,
                         !.recomputed = Append(@, RunRecord(R, n)),
                         !.events = Append(@, Event("recompute", n, 0, R.newValue, R.prevComputing))]
        ELSE [R.S EXCEPT !.currentlyComputing = R.prevComputing,
                         !.recomputed = Append(@, RunRecord(R, n)),
                         !.events = Append(@, Event("recompute", n, 0, R.newValue, R.prevComputing))]]

\* a hybrid recompute that takes the computed base and drops the override
hybridAdoptNoOverride(R, n) ==
    markPending([R.S EXCEPT !.value[n] = structuredClone(R.newValue)], n)

\* a hybrid recompute that takes the computed base only when the dependency
\* sequence of the run differs from the previous one
hybridAdoptGated(R, n) ==
    markPending(
        IF R.S.recomputed[Len(R.S.recomputed)].same
        THEN R.S
        ELSE [R.S EXCEPT !.value[n] =
                    Spread(structuredClone(R.newValue), R.S.manualOverride[n].patch)],
        n)

\* a hybrid recompute that never replaces the stored value
hybridAdoptKeep(R, n) == markPending(R.S, n)

\* hybrid recompute: the base with the override on top, mark pending, schedule
hybridAdopt(R, n) ==
    markPending(
        IF ~R.S.manualOverride[n].isNull
        THEN [R.S EXCEPT !.value[n] =
                    Spread(structuredClone(R.newValue), R.S.manualOverride[n].patch)]
        ELSE [R.S EXCEPT !.value[n] = structuredClone(R.newValue)],
        n)

hybridRecompute(S, n) ==
    hybridAdopt(hybridSnapshot(runComputeFn(clearDependencies(S, n), n), n), n)

recompute(S, n) ==
    IF Kind(n) = "hybrid" THEN hybridRecompute(S, n) ELSE computedRecompute(S, n)

\* ---------------------------------------------------- processPendingStates
\* What the callbacks of the client do.  Callback 2 of the program "reset",
\* subscribed to A, is (v) => { if (v !== 0) setA(0) }; every other callback
\* only records that it was called.
Resets(n, fn) == prog = "reset" /\ n = "A" /\ fn = 2

logCall(S, n, fn, v) ==
    [S EXCEPT !.calls = Append(@, [node |-> n, cb |-> fn, arg |-> v]),
              !.events = Append(@, Event("call", n, fn, v, S.currentlyComputing))]

\* subscriber(value)
callSubscriber(S, n, fn, v) ==
    IF Resets(n, fn) /\ v # Prim(0)
    THEN plainSet(logCall(S, n, fn, v), "A", Prim(0))
    ELSE logCall(S, n, fn, v)

RECURSIVE notifySubscribers(_, _, _, _, _)
notifySubscribers(S, n, subs, i, v) ==
    IF i > Len(subs) THEN S
    ELSE notifySubscribers(callSubscriber(S, n, subs[i], v), n, subs, i + 1, v)

\* const value = state.get(); for (const subscriber of subscribers) subscriber(value)
notify(S, n) == notifySubscribers(S, n, S.subscribers[n], 1, S.value[n])

\* the first loop without its processedStates.has(state) test
RECURSIVE recomputePhaseNoDedup(_, _, _)
recomputePhaseNoDedup(R, statesToProcess, i) ==
    IF i > Len(statesToProcess) THEN R
    ELSE IF ~HasRecompute(statesToProcess[i])
         THEN recomputePhaseNoDedup(R, statesToProcess, i + 1)
         ELSE recomputePhaseNoDedup(
                [S |-> notify(get(recompute(R.S, statesToProcess[i]), statesToProcess[i]),
                              statesToProcess[i]),
                 processed |-> Append(R.processed, statesToProcess[i])],
                statesToProcess, i + 1)

\* the first loop calling the subscribers only when the recompute changed
\* the stored value
RECURSIVE recomputePhaseQuiet(_, _, _)
recomputePhaseQuiet(R, statesToProcess, i) ==
    IF i > Len(statesToProcess) THEN R
    ELSE IF statesToProcess[i] \in Range(R.processed) \/ ~HasRecompute(statesToProcess[i])
         THEN recomputePhaseQuiet(R, statesToProcess, i + 1)
         ELSE recomputePhaseQuiet(
                [S |-> IF recompute(R.S, statesToProcess[i]).value[statesToProcess[i]]
                            = R.S.value[statesToProcess[i]]
                       THEN get(recompute(R.S, statesToProcess[i]), statesToProcess[i])
                       ELSE notify(get(recompute(R.S, statesToProcess[i]), statesToProcess[i]),
                                   statesToProcess[i]),
                 processed |-> Append(R.processed, statesToProcess[i])],
                statesToProcess, i + 1)

\* first loop over statesToProcess: states with recompute.
\* R is [S, processed].
RECURSIVE recomputePhase(_, _, _)
recomputePhase(R, statesToProcess, i) ==
    IF i > Len(statesToProcess) THEN R
    ELSE IF statesToProcess[i] \in Range(R.processed) \/ ~HasRecompute(statesToProcess[i])
         THEN recomputePhase(R, statesToProcess, i + 1)
         ELSE recomputePhase(
                [S |-> notify(get(recompute(R.S, statesToProcess[i]), statesToProcess[i]),
                              statesToProcess[i]),
                 processed |-> Append(R.processed, statesToProcess[i])],
                statesToProcess, i + 1)

\* second loop over statesToProcess: states without recompute.
RECURSIVE plainPhase(_, _, _)
plainPhase(R, statesToProcess, i) ==
    IF i > Len(statesToProcess) THEN R
    ELSE IF statesToProcess[i] \in Range(R.processed) \/ HasRecompute(statesToProcess[i])
         THEN plainPhase(R, statesToProcess, i + 1)
         ELSE plainPhase(
                [S |-> notify(get(R.S, statesToProcess[i]), statesToProcess[i]),
                 processed |-> Append(R.processed, statesToProcess[i])],
                statesToProcess, i + 1)

\* third loop: the dependents of every processed state become pending.
RECURSIVE addDependents(_, _, _, _)
addDependents(S, processed, deps, j) ==
    IF j > Len(deps) THEN S
    ELSE addDependents(
            IF deps[j] \notin Range(processed)
            THEN [S EXCEPT !.pendingStates = SetAdd(@, deps[j]),
                           !.events = Append(@, Event("enqueue", deps[j], 0, Undefined, S.currentlyComputing))]
            ELSE S,
            processed, deps, j + 1)

\* the third loop with a change cut-off: the dependents of a state whose
\* recompute returned the value it already held are left alone
RECURSIVE enqueueDependentsCutoff(_, _, _)
enqueueDependentsCutoff(S, processed, i) ==
    IF i > Len(processed) THEN S
    ELSE enqueueDependentsCutoff(
            IF \E k \in 1..Len(S.recomputed) :
                    /\ S.recomputed[k].node = processed[i]
                    /\ S.recomputed[k].raw = S.recomputed[k].old
            THEN S
            ELSE addDependents(S, processed, S.dependents[processed[i]], 1),
            processed, i + 1)

RECURSIVE enqueueDependents(_, _, _)
enqueueDependents(S, processed, i) ==
    IF i > Len(processed) THEN S
    ELSE enqueueDependents(
            addDependents(S, processed, S.dependents[processed[i]], 1),
            processed, i + 1)

\* a flush that never makes the dependents of processed states pending
enqueueNone(R) == R

enqueue(R) == [R EXCEPT !.S = enqueueDependents(R.S, R.processed, 1)]

\* the while loop body with its first two loops swapped
wavePlainFirst(R, statesToProcess) ==
    enqueue(recomputePhase(plainPhase(
                [R EXCEPT !.S.pendingStates = <<>>,
                          !.S.events = Append(@, Event("wave", Null, 0, Undefined, R.S.currentlyComputing))],
                statesToProcess, 1),
            statesToProcess, 1))

\* one iteration of the while loop: statesToProcess is the pending set,
\* which is cleared before the loops run
wave(R, statesToProcess) ==
    enqueue(plainPhase(recomputePhase(
                [R EXCEPT !.S.pendingStates = <<>>,
                          !.S.events = Append(@, Event("wave", Null, 0, Undefined, R.S.currentlyComputing))],
                statesToProcess, 1),
            statesToProcess, 1))

\* a flush that runs one iteration of the while loop and returns
wavesOnce(R) ==
    IF Len(R.S.pendingStates) = 0 THEN R
    ELSE wave(R, R.S.pendingStates)

RECURSIVE waves(_)
waves(R) ==
    IF Len(R.S.pendingStates) = 0 THEN R
    ELSE waves(wave(R, R.S.pendingStates))

\* a flush that leaves isProcessingPending as it found it
processPendingStatesKeepFlag(S) ==
    waves([S |-> S, processed |-> <<>>])

processPendingStates(S) ==
    waves([S |-> [S EXCEPT !.isProcessingPending = FALSE], processed |-> <<>>])

\* ----------------------------------------------------------------- dispose
RECURSIVE dropFromDependents(_, _, _, _)
dropFromDependents(S, n, deps, i) ==
    IF i > Len(deps) THEN S
    ELSE dropFromDependents(removeDependency(S, deps[i], n), n, deps, i + 1)

\* what the log keeps of a dispose run: the sizes of the sets of the state
\* at the time dispose is entered
DisposeRecord(S, n) ==
    [node |-> n, subscribers |-> Len(S.subscribers[n]),
     dependents |-> Len(S.dependents[n]), dependencies |-> Len(S.dependencies[n])]

dispose(S, n) ==
    [dropFromDependents([S EXCEPT !.subscribers[n] = <<>>], n, S.dependents[n], 1)
        EXCEPT !.dependents[n] = <<>>,
               !.disposed = Append(@, DisposeRecord(S, n))]

\* ----------------------------------------------------- the public methods
\* the merge with the spread order swapped: earlier patches win
mergeOverrideOldWins(S, n, newPartialValue) ==
    [S EXCEPT !.manualOverride[n] =
        [isNull |-> FALSE, patch |-> Spread(newPartialValue, @.patch)]]

\* manualOverride = { ...manualOverride, ...newPartialValue }
mergeOverride(S, n, newPartialValue) ==
    [S EXCEPT !.manualOverride[n] =
        [isNull |-> FALSE, patch |-> Spread(@.patch, newPartialValue)]]

\* _value = { ...structuredClone(_value), ...manualOverride }
applyOverride(S, n) ==
    [S EXCEPT !.value[n] = Spread(structuredClone(@), S.manualOverride[n].patch)]

\* hybridSet that runs the flush itself instead of deferring it
hybridSetSync(S, n, newPartialValue) ==
    processPendingStates(
        [applyOverride(mergeOverride(S, n, newPartialValue), n)
            EXCEPT !.pendingStates = SetAdd(@, n)]).S

hybridSet(S, n, newPartialValue) ==
    markPending(applyOverride(mergeOverride(S, n, newPartialValue), n), n)

\* a computed set that throws only after marking the state pending
computedSetDirty(S, n) == [S |-> markPending(S, n), threw |-> TRUE]

\* set(_) of a computed state: throw new Error(...), nothing else.
\* The result is [S, threw].
computedSet(S, n) == [S |-> S, threw |-> TRUE]

\* a subscribe that registers the callback without calling it
subscribeSilent(S, n, fn) == [S EXCEPT !.subscribers[n] = SetAdd(@, fn)]

\* subscribers.add(fn); fn(_value)
subscribe(S, n, fn) ==
    callSubscriber([S EXCEPT !.subscribers[n] = SetAdd(@, fn)], n, fn, S.value[n])

\* the unsubscribe tail that disposes as soon as the last subscriber is gone
disposeIfUnsubscribed(S, n) ==
    IF Len(S.subscribers[n]) = 0 THEN dispose(S, n) ELSE S

\* the unsubscribe tail without its emptiness test
disposeAlways(S, n) == dispose(S, n)

disposeIfUnused(S, n) ==
    IF /\ Len(S.subscribers[n]) = 0
       /\ (HasRecompute(n) => Len(S.dependencies[n]) = 0)
       /\ Len(S.dependents[n]) = 0
    THEN dispose(S, n)
    ELSE S

\* an unsubscribe that forgets subscribers.delete(fn)
unsubscribeKeep(S, n, fn) == disposeIfUnused(S, n)

\* an unsubscribe that empties the subscriber set
unsubscribeAll(S, n, fn) ==
    disposeIfUnused([S EXCEPT !.subscribers[n] = <<>>], n)

\* the function subscribe returns
unsubscribe(S, n, fn) ==
    disposeIfUnused([S EXCEPT !.subscribers[n] = SetDelete(@, fn)], n)

\* ------------------------------------------------------------------ state
NoOverride == [isNull |-> TRUE, patch |-> [f \in {} |-> 0]]
NoOp == [name |-> "none", node |-> Null, cb |-> 0, arg |-> Undefined, old |-> Undefined,
         changed |-> FALSE]

\* A reference the client holds: the state it belongs to, and whether the
\* object is the very object the state stores.
NoRef == [node |-> Null, stored |-> FALSE]

\* the states in ns have replaced the object they store
Release(ns) ==
    held' = IF held.node \in ns THEN [held EXCEPT !.stored = FALSE] ELSE held

\* structuredClone(v) is a new object: the one handed in is not the one stored
RefOfClone(n) == [node |-> n, stored |-> FALSE]

\* get() is return _value: the caller receives the stored object itself
RefOfGet(n) == [node |-> n, stored |-> TRUE]

\* the objects the client builds
Objects == {Obj(a, b) : a \in Vals, b \in Vals}

\* every state the program declares exists
Ready == created = Declared
Patches == UNION {[D -> PatchVals] : D \in SUBSET Fields}

InitOf(programs) ==
    /\ prog \in programs
    /\ created = {}
    /\ value = [n \in Names |-> Undefined]
    /\ subscribers = [n \in Names |-> <<>>]
    /\ dependents = [n \in Names |-> <<>>]
    /\ dependencies = [n \in Names |-> <<>>]
    /\ lastDeps = [n \in Names |-> <<>>]
    /\ manualOverride = [n \in Names |-> NoOverride]
    /\ currentlyComputing = Null
    /\ pendingStates = <<>>
    /\ isProcessingPending = FALSE
    /\ microtasks = 0
    /\ lastPatch = [n \in Names |-> [f \in {} |-> 0]]
    /\ written = [n \in {} |-> 0]
    /\ op = NoOp
    /\ calls = <<>>
    /\ recomputed = <<>>
    /\ disposed = <<>>
    /\ events = <<>>
    /\ held = NoRef
    /\ immediates = 0

\* the number of registered subscriptions of the states in ns
RECURSIVE Live(_)
Live(ns) ==
    IF ns = {} THEN 0
    ELSE Len(subscribers[CHOOSE n \in ns : TRUE])
            + Live(ns \ {CHOOSE n \in ns : TRUE})

CanCreate(n, kind) ==
    /\ n \in Declared \ created
    /\ Kind(n) = kind
    /\ ~IsInner(n)
    /\ IF Decl(n).fn = "late"
       THEN Decl(n).reads[1] \in created
       ELSE Range(Decl(n).reads) \ {n, Decl(n).inner} \subseteq created

\* createState(initialValue)
CreateState(n, v) ==
    /\ CanCreate(n, "plain")
    /\ created' = created \cup {n}
    /\ Becomes([Engine EXCEPT !.value[n] = structuredClone(Prim(v))])
    /\ op' = [NoOp EXCEPT !.name = "createState", !.node = n, !.arg = Prim(v)]
    /\ UNCHANGED <<prog, lastPatch, written>>
    /\ UNCHANGED <<held, immediates>>

\* createComputedState(computeFn)
CreateComputedState(n) ==
    /\ CanCreate(n, "computed")
    /\ created' = created \cup ({n, Decl(n).inner} \ {Null})
    /\ Becomes(computedRecompute(Engine, n))
    /\ op' = [NoOp EXCEPT !.name = "createComputedState", !.node = n]
    /\ UNCHANGED <<prog, lastPatch, written>>
    /\ UNCHANGED <<held, immediates>>

\* createHybridState(computeFn, initialValue)
CreateHybridState(n) ==
    /\ CanCreate(n, "hybrid")
    /\ created' = created \cup {n}
    /\ Becomes(hybridRecompute(
            [Engine EXCEPT !.value[n] = structuredClone(Decl(n).initial)], n))
    /\ op' = [NoOp EXCEPT !.name = "createHybridState", !.node = n,
                          !.arg = Decl(n).initial]
    /\ UNCHANGED <<prog, lastPatch, written>>
    /\ UNCHANGED <<held, immediates>>

\* a call of get() outside any computation; arg is the value returned
Get(n) ==
    /\ Ready
    /\ n \in created
    /\ Becomes(get(Engine, n))
    /\ op' = [NoOp EXCEPT !.name = "get"]
    /\ UNCHANGED <<prog, created, lastPatch, written>>
    /\ UNCHANGED <<held, immediates>>

\* set(newValue) of a plain state
Set(n, v) ==
    /\ Ready
    /\ n \in created
    /\ Kind(n) = "plain"
    /\ Becomes(plainSet(Engine, n, Prim(v)))
    /\ written' = [m \in (DOMAIN written) \cup {n} |->
            IF m # n THEN written[m]
            ELSE [last |-> Prim(v),
                  several |-> n \in DOMAIN written,
                  changed |-> \/ value[n] # Prim(v)
                              \/ (n \in DOMAIN written /\ written[n].changed)]]
    /\ op' = [NoOp EXCEPT !.name = "set", !.node = n, !.arg = Prim(v),
                          !.old = value[n], !.changed = value[n] # Prim(v)]
    /\ UNCHANGED <<prog, created, lastPatch>>
    /\ Release(IF value[n] # Prim(v) THEN {n} ELSE {})
    /\ UNCHANGED immediates

\* set(newPartialValue) of a hybrid state
SetHybrid(n, patch) ==
    /\ Ready
    /\ n \in created
    /\ Kind(n) = "hybrid"
    /\ Becomes(hybridSet(Engine, n, patch))
    /\ lastPatch' = [lastPatch EXCEPT ![n] =
            [f \in (DOMAIN @) \cup (DOMAIN patch) |->
                IF f \in DOMAIN patch THEN patch[f] ELSE @[f]]]
    /\ op' = [NoOp EXCEPT !.name = "setHybrid", !.node = n, !.arg = patch,
                          !.old = value[n], !.changed = TRUE]
    /\ UNCHANGED <<prog, created, written>>
    /\ Release({n})
    /\ UNCHANGED immediates

\* set(_) of a computed state never reads its argument and throws before it
\* touches anything
SetComputed(n) ==
    /\ Ready
    /\ n \in created
    /\ Kind(n) = "computed"
    /\ Becomes(computedSet(Engine, n).S)
    /\ op' = [NoOp EXCEPT !.name =
                IF computedSet(Engine, n).threw THEN "setThrows" ELSE "setComputed"]
    /\ UNCHANGED <<prog, created, lastPatch, written>>
    /\ UNCHANGED <<held, immediates>>

Subscribe(n, fn) ==
    /\ Ready
    /\ n \in created
    /\ fn \in Range(subscribers[n]) \/ Live(created) < MaxLive
    /\ Becomes(subscribe(Engine, n, fn))
    /\ op' = [NoOp EXCEPT !.name = "subscribe", !.node = n, !.cb = fn]
    /\ UNCHANGED <<prog, created, lastPatch, written>>
    /\ UNCHANGED <<held, immediates>>

\* the function a subscribe call returned, called while fn is registered
Unsubscribe(n, fn) ==
    /\ Ready
    /\ n \in created
    /\ fn \in Range(subscribers[n])
    /\ Becomes(unsubscribe(Engine, n, fn))
    /\ op' = [NoOp EXCEPT !.name = "unsubscribe", !.node = n, !.cb = fn,
                          !.changed = fn \in Range(subscribers[n])]
    /\ UNCHANGED <<prog, created, lastPatch, written>>
    /\ UNCHANGED <<held, immediates>>

\* the function the last operation called was the one subscribe(fn) on n had
\* returned; the client still holds it
HandleCalled(n, fn) ==
    /\ op.name \in {"unsubscribe", "unsubscribeAgain", "resubscribe"}
    /\ op.node = n
    /\ op.cb = fn

\* subscribe(fn) once more on a state, right after an unsubscribe function
\* for fn on that state was called
Resubscribe(n, fn) ==
    /\ Ready
    /\ n \in created
    /\ HandleCalled(n, fn)
    /\ op.name # "resubscribe"
    /\ fn \in Range(subscribers[n]) \/ Live(created) < MaxLive
    /\ Becomes(subscribe(Engine, n, fn))
    /\ op' = [NoOp EXCEPT !.name = "resubscribe", !.node = n, !.cb = fn]
    /\ UNCHANGED <<prog, created, lastPatch, written>>
    /\ UNCHANGED <<held, immediates>>

\* the unsubscribe function that was just called, called a second time
UnsubscribeAgain(n, fn) ==
    /\ Ready
    /\ n \in created
    /\ HandleCalled(n, fn)
    /\ Becomes(unsubscribe(Engine, n, fn))
    /\ op' = [NoOp EXCEPT !.name = "unsubscribeAgain", !.node = n, !.cb = fn,
                          !.old = op.name,
                          !.changed = fn \in Range(subscribers[n])]
    /\ UNCHANGED <<prog, created, lastPatch, written>>
    /\ UNCHANGED <<held, immediates>>

\* the host runs the queued processPendingStates callback
Flush ==
    /\ microtasks > 0
    /\ Becomes(processPendingStates([Engine EXCEPT !.microtasks = @ - 1]).S)
    /\ written' = [n \in {} |-> 0]
    /\ op' = [NoOp EXCEPT !.name = "flush",
                          !.arg = [pending |-> pendingStates, written |-> written]]
    /\ UNCHANGED <<prog, created, lastPatch>>
    /\ Release({recomputed'[i].node : i \in 1..Len(recomputed')})
    /\ UNCHANGED immediates

\* createState(o) with an object the client built and keeps
CreateObjectState(n, o) ==
    /\ prog \in ObjectPrograms
    /\ CanCreate(n, "plain")
    /\ created' = created \cup {n}
    /\ Becomes([Engine EXCEPT !.value[n] = structuredClone(o)])
    /\ held' = RefOfClone(n)
    /\ op' = [NoOp EXCEPT !.name = "createState", !.node = n, !.arg = o]
    /\ UNCHANGED <<prog, lastPatch, written, immediates>>

\* set(o) of a plain state with an object the client built and keeps
SetObject(n, o) ==
    /\ prog \in ObjectPrograms
    /\ Ready
    /\ n \in created
    /\ Kind(n) = "plain"
    /\ Becomes(plainSet(Engine, n, o))
    /\ written' = [m \in (DOMAIN written) \cup {n} |->
            IF m # n THEN written[m]
            ELSE [last |-> o, several |-> n \in DOMAIN written, changed |-> TRUE]]
    /\ held' = RefOfClone(n)
    /\ op' = [NoOp EXCEPT !.name = "set", !.node = n, !.arg = o,
                          !.old = value[n], !.changed = TRUE]
    /\ UNCHANGED <<prog, created, lastPatch, immediates>>

\* const o = get(): the client keeps what get() returned
KeepGet(n) ==
    /\ prog \in ObjectPrograms
    /\ Ready
    /\ n \in created
    /\ Becomes(get(Engine, n))
    /\ held' = RefOfGet(n)
    /\ op' = [NoOp EXCEPT !.name = "get", !.node = n, !.arg = getValue(Engine, n)]
    /\ UNCHANGED <<prog, created, lastPatch, written, immediates>>

\* o.f = v on the object the client holds: it changes the value of a state
\* exactly when the object is the one the state stores
Mutate(f, v) ==
    /\ held.node # Null
    /\ Becomes(IF held.stored
               THEN [Engine EXCEPT !.value[held.node] = Spread(@, [g \in {f} |-> v])]
               ELSE Engine)
    /\ op' = [NoOp EXCEPT !.name = "mutate", !.node = held.node,
                          !.arg = [g \in {f} |-> v], !.old = value[held.node]]
    /\ UNCHANGED <<prog, created, lastPatch, written, held, immediates>>

\* a client of plain and computed states
\* setImmediate(resolve): the client queues a macrotask
QueueImmediate ==
    /\ Ready
    /\ immediates < MaxImmediates
    /\ immediates' = immediates + 1
    /\ op' = [NoOp EXCEPT !.name = "setImmediate"]
    /\ UNCHANGED <<prog, created, value, subscribers, dependents, dependencies,
                   lastDeps, manualOverride, currentlyComputing, pendingStates,
                   isProcessingPending, microtasks, lastPatch, written, calls,
                   recomputed, disposed, events, held>>

\* The host runs a queued macrotask: the microtask queue is drained first, so
\* the callback scheduleProcessing queued has run by then.  The callback of the
\* client only observes the engine.
RunImmediate ==
    /\ immediates > 0
    /\ microtasks = 0
    /\ immediates' = immediates - 1
    /\ op' = [NoOp EXCEPT !.name = "immediate"]
    /\ UNCHANGED <<prog, created, value, subscribers, dependents, dependencies,
                   lastDeps, manualOverride, currentlyComputing, pendingStates,
                   isProcessingPending, microtasks, lastPatch, written, calls,
                   recomputed, disposed, events, held>>

Init == InitOf(GraphPrograms)

Next ==
    \/ \E n \in Names, v \in Vals : CreateState(n, v)
    \/ \E n \in Names : CreateComputedState(n)
    \/ \E n \in Names : Get(n)
    \/ \E n \in Names, v \in Vals : Set(n, v)
    \/ \E n \in Names : SetComputed(n)
    \/ \E n \in Names, fn \in Callbacks : Subscribe(n, fn)
    \/ \E n \in Names, fn \in Callbacks : Unsubscribe(n, fn)
    \/ Flush

Spec == Init /\ [][Next]_vars

\* a client with a hybrid state
InitHybrid == InitOf(HybridPrograms)

NextHybrid ==
    \/ \E n \in Names, v \in Vals : CreateState(n, v)
    \/ \E n \in Names : CreateHybridState(n)
    \/ \E n \in Names : Get(n)
    \/ \E n \in Names, v \in Vals : Set(n, v)
    \/ \E n \in Names, patch \in Patches : SetHybrid(n, patch)
    \/ \E n \in Names, fn \in Callbacks : Subscribe(n, fn)
    \/ \E n \in Names, fn \in Callbacks : Unsubscribe(n, fn)
    \/ Flush

SpecHybrid == InitHybrid /\ [][NextHybrid]_vars

\* a client with a callback that writes to the state it is subscribed to
InitReentrant == InitOf({"reset"})

SpecReentrant == InitReentrant /\ [][Next]_vars

\* a client that waits for a macrotask before it looks at the results
InitLoop == InitOf(LoopPrograms)

NextLoop ==
    \/ \E n \in Names, v \in Vals : CreateState(n, v)
    \/ \E n \in Names : CreateComputedState(n)
    \/ \E n \in Names, v \in Vals : Set(n, v)
    \/ \E n \in Names, fn \in Callbacks : Subscribe(n, fn)
    \/ \E n \in Names, fn \in Callbacks : Unsubscribe(n, fn)
    \/ QueueImmediate
    \/ RunImmediate
    \/ Flush

SpecLoop == InitLoop /\ [][NextLoop]_vars

\* a client that keeps and mutates the objects it passes in and gets back
InitAlias == InitOf(ObjectPrograms)

NextAlias ==
    \/ \E n \in Names, o \in Objects : CreateObjectState(n, o)
    \/ \E n \in Names : CreateHybridState(n)
    \/ \E n \in Names : KeepGet(n)
    \/ \E n \in Names, o \in Objects : SetObject(n, o)
    \/ \E n \in Names, patch \in Patches : SetHybrid(n, patch)
    \/ \E f \in Fields, v \in Vals : Mutate(f, v)
    \/ \E n \in Names, fn \in Callbacks : Subscribe(n, fn)
    \/ \E n \in Names, fn \in Callbacks : Unsubscribe(n, fn)
    \/ Flush

SpecAlias == InitAlias /\ [][NextAlias]_vars

\* a client of any of the programs
InitAll == InitOf(GraphPrograms \cup HybridPrograms)

NextAll ==
    \/ \E n \in Names, v \in Vals : CreateState(n, v)
    \/ \E n \in Names : CreateComputedState(n)
    \/ \E n \in Names : CreateHybridState(n)
    \/ \E n \in Names : Get(n)
    \/ \E n \in Names, v \in Vals : Set(n, v)
    \/ \E n \in Names, patch \in Patches : SetHybrid(n, patch)
    \/ \E n \in Names : SetComputed(n)
    \/ \E n \in Names, fn \in Callbacks : Subscribe(n, fn)
    \/ \E n \in Names, fn \in Callbacks : Unsubscribe(n, fn)
    \/ Flush

SpecAll == InitAll /\ [][NextAll]_vars

\* clients whose compute functions have the other bodies
InitShapes == InitOf(ShapePrograms)

SpecShapes == InitShapes /\ [][Next]_vars

\* a client whose computed states read each other, and a hybrid state
InitCycle == InitOf(CyclePrograms)

SpecCycle == InitCycle /\ [][NextAll]_vars

\* clients that keep the unsubscribe functions and call them twice
UnsubPrograms == {"chain", "mixed", "hybrid"}

InitUnsub == InitOf(UnsubPrograms)

NextUnsub ==
    \/ \E n \in Names, v \in Vals : CreateState(n, v)
    \/ \E n \in Names : CreateComputedState(n)
    \/ \E n \in Names : CreateHybridState(n)
    \/ \E n \in Names, v \in Vals : Set(n, v)
    \/ \E n \in Names, fn \in Callbacks : Subscribe(n, fn)
    \/ \E n \in Names, fn \in Callbacks : Unsubscribe(n, fn)
    \/ Flush
    \/ \E n \in Names, fn \in Callbacks : Resubscribe(n, fn)
    \/ \E n \in Names, fn \in Callbacks : UnsubscribeAgain(n, fn)

SpecUnsub == InitUnsub /\ [][NextUnsub]_vars

InitSelf == InitOf(SelfPrograms)

NextSelf ==
    \/ \E n \in Names, v \in Vals : CreateState(n, v)
    \/ \E n \in Names : CreateComputedState(n)
    \/ \E n \in Names : CreateHybridState(n)
    \/ \E n \in Names, v \in Vals : Set(n, v)
    \/ \E n \in Names, patch \in Patches : SetHybrid(n, patch)
    \/ Flush

SpecSelf == InitSelf /\ [][NextSelf]_vars

\* The host runs every queued microtask.  This is WF_vars(Flush) written
\* out: Flush is enabled exactly when microtasks > 0, and the Flush steps
\* are the steps that set op.name to "flush".
SpecSelfFair ==
    SpecSelf /\ (([]<>(microtasks = 0)) \/ ([]<><<op'.name = "flush">>_vars))

TypeOK ==
    /\ created \subseteq Declared
    /\ microtasks \in 0..1
    /\ immediates \in 0..MaxImmediates
    /\ currentlyComputing = Null

\* ------------------------------------------------------- reading the logs
\* how often callback fn of state n appears in a call log
CallCount(log, n, fn) ==
    Cardinality({i \in 1..Len(log) : log[i].node = n /\ log[i].cb = fn})

CallArgs(log, n, fn) ==
    {log[i].arg : i \in {j \in 1..Len(log) : log[j].node = n /\ log[j].cb = fn}}

RunCount(log, n) == Cardinality({i \in 1..Len(log) : log[i].node = n})

RawOf(log, n) == {log[i].raw : i \in {j \in 1..Len(log) : log[j].node = n}}

Plain(n) == n \in created /\ Kind(n) = "plain"
Computed(n) == n \in created /\ Kind(n) = "computed"
Hybrid(n) == n \in created /\ Kind(n) = "hybrid"

Quiescent == Len(pendingStates) = 0 /\ ~isProcessingPending /\ microtasks = 0

\* ---------------------------------------------------------------- claim C1
\* C1: after set(v2) with a changed value a plain state holds v2 and is
\* pending with one flush queued until that flush runs; the flush invokes
\* every subscriber registered at flush time exactly once, with the state's
\* current value; a flush does not invoke the subscribers of a plain state
\* that was not written, and no call but a flush or its own subscribe
\* invokes a subscriber.
C1_PlainSubscribersNotifiedOnce ==
    /\ (op.name = "set" /\ op.changed) => value[op.node] = op.arg
    /\ \A n \in DOMAIN written : written[n].changed =>
            (n \in Range(pendingStates) /\ microtasks = 1)
    /\ \A n \in Names : Plain(n) => \A fn \in Callbacks :
        CASE op.name = "flush" ->
                IF /\ n \in DOMAIN op.arg.written
                   /\ op.arg.written[n].changed
                   /\ fn \in Range(subscribers[n])
                THEN /\ CallCount(calls, n, fn) = 1
                     /\ CallArgs(calls, n, fn) = {value[n]}
                ELSE CallCount(calls, n, fn) = 0
          [] op.name = "subscribe" /\ op.node = n /\ op.cb = fn ->
                CallCount(calls, n, fn) = 1
          [] OTHER -> CallCount(calls, n, fn) = 0

\* a flush has just notified the two subscribers of a written plain state
C1_Witness ==
    /\ op.name = "flush"
    /\ \E n \in DOMAIN op.arg.written :
        /\ op.arg.written[n].changed
        /\ Len(subscribers[n]) = 2
        /\ \A fn \in Range(subscribers[n]) :
            CallCount(calls, n, fn) = 1 /\ CallArgs(calls, n, fn) = {value[n]}

\* ---------------------------------------------------------------- claim C2
\* C2: whenever the engine is quiescent (pending set empty, no flush
\* scheduled) every computed state holds the result of its compute function
\* on the current values of the states it reads.
C2_DerivedValuesConsistent ==
    Quiescent => \A n \in Names : Computed(n) => value[n] = computeFn(Engine, n)

\* ---------------------------------------------------------------- claim C3
\* C3: within one flush every state is recomputed at most once and each of
\* its subscribers is invoked at most once; in the diamond (B and C read A,
\* D reads B and C) a flush started by a write to A alone recomputes D once
\* and calls each subscriber of D exactly once.
C3_ProcessedAtMostOnce ==
    op.name = "flush" =>
        /\ \A n \in created :
            /\ RunCount(recomputed, n) <= 1
            /\ \A fn \in Callbacks : CallCount(calls, n, fn) <= 1
        /\ (prog = "diamond" /\ op.arg.pending = <<"A">>) =>
            /\ RunCount(recomputed, "D") = 1
            /\ \A fn \in Range(subscribers["D"]) : CallCount(calls, "D", fn) = 1

\* the diamond after a write to A and the flush: B, C and D were recomputed
\* and the subscriber of D was called once
C3_Witness ==
    /\ prog = "diamond"
    /\ op.name = "flush"
    /\ op.arg.pending = <<"A">>
    /\ Len(subscribers["D"]) >= 1
    /\ \A n \in {"B", "C", "D"} : RunCount(recomputed, n) = 1
    /\ \A fn \in Range(subscribers["D"]) : CallCount(calls, "D", fn) = 1

\* ---------------------------------------------------------------- claim C4
\* C4 as stated: any set calls made while no flush is scheduled leave exactly
\* one flush scheduled, and that flush invokes each subscriber of a plain
\* state that was written exactly once with the last value written.
C4_AnySetsScheduleOneFlush ==
    /\ (op.name \in {"set", "setHybrid"}) => microtasks = 1
    /\ op.name = "flush" =>
        \A n \in DOMAIN op.arg.written : \A fn \in Range(subscribers[n]) :
            /\ CallCount(calls, n, fn) = 1
            /\ CallArgs(calls, n, fn) = {op.arg.written[n].last}

\* C4 amended: set calls of which at least one changes its state (a plain
\* set with a different value, or a hybrid set) leave exactly one flush
\* scheduled, never more; that flush invokes each subscriber of a plain
\* state whose value a set changed exactly once, with the last value
\* written.
C4_ChangingSetsScheduleOneFlush ==
    /\ microtasks <= 1
    /\ (op.name \in {"set", "setHybrid"} /\ op.changed) =>
            (microtasks = 1 /\ isProcessingPending)
    /\ (\E n \in DOMAIN written : written[n].changed) =>
            (microtasks = 1 /\ isProcessingPending)
    /\ op.name = "flush" =>
        \A n \in DOMAIN op.arg.written : op.arg.written[n].changed =>
            \A fn \in Range(subscribers[n]) :
                /\ CallCount(calls, n, fn) = 1
                /\ CallArgs(calls, n, fn) = {op.arg.written[n].last}

\* several set calls on a subscribed plain state were followed by one
\* flush, which called the subscriber once with the last value written
C4_Witness ==
    /\ op.name = "flush"
    /\ microtasks = 0
    /\ \E n \in DOMAIN op.arg.written :
        /\ op.arg.written[n].several
        /\ op.arg.written[n].changed
        /\ Len(subscribers[n]) >= 1
        /\ \A fn \in Range(subscribers[n]) :
            /\ CallCount(calls, n, fn) = 1
            /\ CallArgs(calls, n, fn) = {op.arg.written[n].last}

\* ---------------------------------------------------------------- claim C5
\* C5: a plain set and a hybrid set invoke no subscriber and run no
\* recompute before they return.
C5_SetIsDeferred ==
    (op.name \in {"set", "setHybrid"}) => (calls = <<>> /\ recomputed = <<>>)

\* a plain set has changed a state that has a subscriber and a dependent
C5_Witness ==
    /\ op.name = "set"
    /\ op.changed
    /\ Len(subscribers[op.node]) >= 1
    /\ Len(dependents[op.node]) >= 1
    /\ op.node \in Range(pendingStates)

\* ---------------------------------------------------------------- claim C6
\* C6: unsubscribe removes the callback, and a callback that is not
\* registered on a state is invoked by no later call, flush or other, until
\* it is subscribed again.
C6_Unregistered ==
    op.name = "unsubscribe" => op.cb \notin Range(subscribers[op.node])

C6_Step ==
    \A n \in created : \A fn \in Callbacks :
        (/\ fn \notin Range(subscribers[n])
         /\ ~(op'.name = "subscribe" /\ op'.node = n /\ op'.cb = fn))
            => CallCount(calls', n, fn) = 0

C6_NoCallAfterUnsubscribe == [] C6_Unregistered /\ [][C6_Step]_vars

\* unsubscribe has returned while the state is pending and its flush queued
C6_Witness ==
    /\ op.name = "unsubscribe"
    /\ op.node \in Range(pendingStates)
    /\ microtasks = 1
    /\ op.cb \notin Range(subscribers[op.node])

\* ---------------------------------------------------------------- claim C7
\* C7: after a changing set of plain state A and the flush, every computed
\* state B that read A in its last computation was recomputed in the flush,
\* holds the result of that run, and its subscribers were invoked with that
\* value; if B reads plain states only, the value is the compute function
\* on their current values (B = A + 5 in the chain program).
C7_DependentRecomputed ==
    op.name = "flush" =>
        \A a \in DOMAIN op.arg.written : op.arg.written[a].changed =>
            \A b \in Names : (Computed(b) /\ a \in Range(lastDeps[b])) =>
                /\ RunCount(recomputed, b) = 1
                /\ RawOf(recomputed, b) = {value[b]}
                /\ (\A r \in Range(Decl(b).reads) : Kind(r) = "plain") =>
                        value[b] = computeFn(Engine, b)
                /\ (prog = "chain" /\ b = "B") => value[b] = Prim(value[a].prim + 5)
                /\ \A fn \in Range(subscribers[b]) :
                        CallArgs(calls, b, fn) = {value[b]}

\* the chain after A.set(1) and the flush: B = A + 5 went from 5 to 6 and
\* its subscriber received 6
C7_Witness ==
    /\ prog = "chain"
    /\ op.name = "flush"
    /\ "A" \in DOMAIN op.arg.written
    /\ value["A"] = Prim(1)
    /\ value["B"] = Prim(6)
    /\ \E i \in 1..Len(recomputed) :
            recomputed[i].node = "B" /\ recomputed[i].old = Prim(5)
    /\ Len(subscribers["B"]) >= 1
    /\ \A fn \in Range(subscribers["B"]) : CallArgs(calls, "B", fn) = {Prim(6)}

\* ---------------------------------------------------------------- claim C8
\* C8 as stated: a recompute of a computed state that captures the same
\* dependency sequence as the previous computation keeps the stored value.
C8_SameDepsKeepValue ==
    \A i \in 1..Len(recomputed) :
        (Kind(recomputed[i].node) = "computed" /\ recomputed[i].same) =>
            value[recomputed[i].node] = recomputed[i].old

\* C8 amended: such a recompute leaves lastDeps as it was, but the value is
\* not kept: the state holds the raw result of the compute function after
\* the recompute, whether or not it equals the value stored before.
C8_SameDepsAdoptResult ==
    \A i \in 1..Len(recomputed) :
        (Kind(recomputed[i].node) = "computed" /\ recomputed[i].same) =>
            /\ value[recomputed[i].node] = recomputed[i].raw
            /\ lastDeps[recomputed[i].node] = dependencies[recomputed[i].node]

\* a recompute with an unchanged dependency sequence has changed the value
C8_Witness ==
    \E i \in 1..Len(recomputed) :
        /\ Kind(recomputed[i].node) = "computed"
        /\ recomputed[i].same
        /\ Len(lastDeps[recomputed[i].node]) >= 1
        /\ recomputed[i].raw # recomputed[i].old
        /\ value[recomputed[i].node] = recomputed[i].raw

\* ---------------------------------------------------------------- claim C9
\* C9: right after a hybrid set(patch) returns, before any flush, the value
\* is the value held before the call with the whole accumulated override on
\* top: every field some patch has named holds the latest patch value for
\* it, every other field is untouched.
C9_PatchVisibleAtOnce ==
    op.name = "setHybrid" =>
        /\ DOMAIN value[op.node] = (DOMAIN op.old) \cup (DOMAIN lastPatch[op.node])
        /\ \A f \in DOMAIN value[op.node] :
            value[op.node][f] =
                IF f \in DOMAIN lastPatch[op.node]
                THEN lastPatch[op.node][f] ELSE op.old[f]
        /\ \A f \in DOMAIN op.arg : value[op.node][f] = op.arg[f]

\* set({y: 0}) on the hybrid state () => ({x: 1, y: 2}) gives {x: 1, y: 0}
C9_Witness ==
    /\ prog = "patched"
    /\ op.name = "setHybrid"
    /\ op.arg = [f \in {"y"} |-> 0]
    /\ op.old = Obj(1, 2)
    /\ value["H"] = Obj(1, 0)

\* --------------------------------------------------------------- claim C10
\* C10: in every reachable state each field of a hybrid state that a patch
\* has ever named holds the value of the latest patch naming it, whatever
\* the compute function returns for the field.
C10_OverrideWins ==
    \A n \in Names : Hybrid(n) =>
        \A f \in DOMAIN lastPatch[n] :
            f \in DOMAIN value[n] /\ value[n][f] = lastPatch[n][f]

\* a flush has recomputed a patched hybrid state whose computed base has
\* another value for the patched field
C10_Witness ==
    /\ op.name = "flush"
    /\ \E i \in 1..Len(recomputed) :
        /\ Kind(recomputed[i].node) = "hybrid"
        /\ "x" \in DOMAIN lastPatch[recomputed[i].node]
        /\ recomputed[i].raw.x # lastPatch[recomputed[i].node].x
        /\ value[recomputed[i].node].x = lastPatch[recomputed[i].node].x

\* --------------------------------------------------------------- claim C11
\* C11: every recompute a flush makes of a hybrid state that has a manual
\* override leaves the state holding the computed base with the override on
\* top, and the flush invokes each subscriber of the state exactly once with
\* that merged value, also when the base is the one of the previous run.
C11_HybridRenotifies ==
    op.name = "flush" =>
        \A i \in 1..Len(recomputed) :
            (/\ Kind(recomputed[i].node) = "hybrid"
             /\ ~manualOverride[recomputed[i].node].isNull) =>
                /\ value[recomputed[i].node] =
                        Spread(recomputed[i].raw, manualOverride[recomputed[i].node].patch)
                /\ \A fn \in Range(subscribers[recomputed[i].node]) :
                    /\ CallCount(calls, recomputed[i].node, fn) = 1
                    /\ CallArgs(calls, recomputed[i].node, fn) = {value[recomputed[i].node]}

\* a flush has recomputed the patched hybrid state () => ({x: 1, y: 2}): the
\* base is the one of every earlier run, the merged value is the one held
\* before, and the subscriber was called with it again
C11_Witness ==
    /\ prog = "patched"
    /\ op.name = "flush"
    /\ ~manualOverride["H"].isNull
    /\ Len(subscribers["H"]) >= 1
    /\ \E i \in 1..Len(recomputed) :
        /\ recomputed[i].node = "H"
        /\ recomputed[i].raw = Obj(1, 2)
        /\ recomputed[i].old = value["H"]
    /\ \A fn \in Range(subscribers["H"]) :
        CallCount(calls, "H", fn) = 1 /\ CallArgs(calls, "H", fn) = {value["H"]}

\* --------------------------------------------------------------- claim C12
\* C12: after a changing set of a plain state that a hybrid state read in
\* its last computation, and the flush, the hybrid state was recomputed and
\* every field outside its manual override holds the field of the compute
\* function's result on the current values, the dependency sequence being
\* unchanged or not.
C12_HybridAdoptsBase ==
    op.name = "flush" =>
        \A a \in DOMAIN op.arg.written : op.arg.written[a].changed =>
            \A h \in Names : (Hybrid(h) /\ a \in Range(lastDeps[h])) =>
                /\ RunCount(recomputed, h) = 1
                /\ \A f \in Fields \ DOMAIN manualOverride[h].patch :
                        value[h][f] = computeFn(Engine, h)[f]

\* A.set(1) and the flush: the hybrid state () => ({x: A(), y: 2}) captured
\* the same dependency sequence and its x went from 0 to 1
C12_Witness ==
    /\ prog = "hybrid"
    /\ op.name = "flush"
    /\ "A" \in DOMAIN op.arg.written
    /\ value["A"] = Prim(1)
    /\ "x" \notin DOMAIN manualOverride["H"].patch
    /\ value["H"].x = 1
    /\ \E i \in 1..Len(recomputed) :
        /\ recomputed[i].node = "H"
        /\ recomputed[i].same
        /\ recomputed[i].old.x = 0

\* --------------------------------------------------------------- claim C13
\* C13: right after createHybridState returns, and after every flush that
\* finds the state without a manual override (the first flush after the
\* creation included), the hybrid state holds the result of its compute
\* function, whatever the initialValue argument was.
C13_InitialValueReplaced ==
    \A n \in Names :
        (/\ Hybrid(n)
         /\ manualOverride[n].isNull
         /\ op.name \in {"createHybridState", "flush"}) =>
            value[n] = computeFn(Engine, n)

\* the first flush after createHybridState(() => ({x: A(), y: 2}), {x: 1, y: 2})
\* with A = 0: the state held {x: 0, y: 2} before the flush and holds it after
C13_Witness ==
    /\ prog = "hybrid"
    /\ op.name = "flush"
    /\ op.arg.pending = <<"H">>
    /\ DOMAIN op.arg.written = {}
    /\ manualOverride["H"].isNull
    /\ Decl("H").initial = Obj(1, 2)
    /\ value["H"] = Obj(0, 2)
    /\ \E i \in 1..Len(recomputed) :
        recomputed[i].node = "H" /\ recomputed[i].old = Obj(0, 2)

\* --------------------------------------------------------------- claim C14
\* C14: every set call on a computed state throws, and the call leaves the
\* values, the subscribers, the edges, the pending set, the flush-scheduled
\* flag and the queued flush as they were, and invokes nothing.
C14_Throws == op.name # "setComputed"

C14_Step ==
    (op'.name \in {"setThrows", "setComputed"}) =>
        /\ UNCHANGED <<value, subscribers, dependents, dependencies, lastDeps,
                       pendingStates, isProcessingPending, microtasks>>
        /\ calls' = <<>>
        /\ recomputed' = <<>>

C14_ComputedSetThrows == [] C14_Throws /\ [][C14_Step]_vars

\* set has thrown on a computed state while a write was pending, the flush
\* queued and a computed state with dependencies subscribed
C14_Witness ==
    /\ op.name = "setThrows"
    /\ microtasks = 1
    /\ Len(pendingStates) >= 1
    /\ \E n \in Names :
        /\ Computed(n)
        /\ Len(subscribers[n]) >= 1
        /\ Len(dependencies[n]) >= 1

\* --------------------------------------------------------------- claim C15
\* C15: subscribe(fn) on a plain, computed or hybrid state makes exactly one
\* subscriber call before it returns, fn with the value the state holds, and
\* leaves fn registered; a flush calls every subscriber registered on a
\* state it processes (a state that was pending when the flush started, or
\* that the flush recomputed) exactly once.
C15_SubscribeCallsOnce ==
    /\ op.name = "subscribe" =>
        /\ calls = <<[node |-> op.node, cb |-> op.cb, arg |-> value[op.node]]>>
        /\ op.cb \in Range(subscribers[op.node])
    /\ op.name = "flush" =>
        \A n \in created :
            (n \in Range(op.arg.pending) \/ RunCount(recomputed, n) >= 1) =>
                \A fn \in Range(subscribers[n]) : CallCount(calls, n, fn) = 1

\* a second callback has subscribed to a computed state that has
\* dependencies and was called with the computed value
C15_Witness ==
    /\ op.name = "subscribe"
    /\ Kind(op.node) = "computed"
    /\ Len(dependencies[op.node]) >= 1
    /\ Len(subscribers[op.node]) = 2
    /\ value[op.node] = computeFn(Engine, op.node)
    /\ calls = <<[node |-> op.node, cb |-> op.cb, arg |-> value[op.node]]>>

\* --------------------------------------------------------------- claim C16
\* C16: get() of a plain state returns the value stored last: the initial
\* value right after createState(v), v2 as soon as set(v2) has returned and
\* through every later call, and the flush does not change it.
C16_PlainGetReturnsLastStored ==
    /\ op.name \in {"createState", "set"} => getValue(Engine, op.node) = op.arg
    /\ \A n \in DOMAIN written : getValue(Engine, n) = written[n].last
    /\ op.name = "flush" =>
        \A n \in DOMAIN op.arg.written : getValue(Engine, n) = op.arg.written[n].last

\* set(v2) with a new value has returned, the flush is still queued, and
\* the state holds v2
C16_Witness ==
    /\ op.name = "set"
    /\ op.changed
    /\ op.arg # op.old
    /\ microtasks = 1
    /\ op.node \in Range(pendingStates)
    /\ getValue(Engine, op.node) = op.arg

\* --------------------------------------------------------------- claim C17
\* C17: a plain set(v) with v the value the state holds changes nothing: the
\* values of all states (its computed dependents included), the pending set,
\* the flush-scheduled flag, the queued flush, the subscribers and the edges
\* stay as they were, and the call invokes no subscriber and no recompute.
\* With no flush queued before the call, none is queued after it.
C17_Step ==
    (op'.name = "set" /\ ~op'.changed) =>
        /\ UNCHANGED <<value, pendingStates, isProcessingPending, microtasks,
                       subscribers, dependents, dependencies, lastDeps>>
        /\ calls' = <<>>
        /\ recomputed' = <<>>

C17_SameValueSetIsNoOp == [][C17_Step]_vars

\* set(v) with the current value has returned on a quiescent engine; the
\* state has a subscriber and a computed dependent, and nothing is queued
C17_Witness ==
    /\ op.name = "set"
    /\ ~op.changed
    /\ op.arg = value[op.node]
    /\ Quiescent
    /\ Len(subscribers[op.node]) >= 1
    /\ \E b \in Range(dependents[op.node]) : Computed(b) /\ value[b] = computeFn(Engine, b)

\* --------------------------------------------------------------- claim C18
\* C18: createComputedState runs the compute function once before it
\* returns: right after the creation get() returns the compute function's
\* result on the current values of the states it reads, these states are
\* the dependencies of the new state, and it is among their dependents.
C18_ComputedInitialised ==
    op.name = "createComputedState" =>
        /\ RunCount(recomputed, op.node) = 1
        /\ getValue(Engine, op.node) = computeFn(Engine, op.node)
        /\ Range(dependencies[op.node]) = Range(Decl(op.node).reads)
        /\ \A r \in Range(Decl(op.node).reads) : op.node \in Range(dependents[r])

\* A = createState(1); B = createComputedState(() => A() + 5): B is 6 and
\* depends on A
C18_Witness ==
    /\ prog = "chain"
    /\ op.name = "createComputedState"
    /\ op.node = "B"
    /\ value["A"] = Prim(1)
    /\ getValue(Engine, "B") = Prim(6)
    /\ dependencies["B"] = <<"A">>
    /\ dependents["A"] = <<"B">>

\* --------------------------------------------------------------- claim C19
\* C19: in every state between two calls, a is among the dependencies of b
\* exactly when b is among the dependents of a, for all states a and b.
C19_EdgeSymmetry ==
    \A a \in Names : \A b \in Names :
        (a \in Range(dependencies[b])) <=> (b \in Range(dependents[a]))

\* a flush has recomputed B, C and D of the chain: each tore its edges down
\* and captured them again
C19_Witness ==
    /\ prog = "chain"
    /\ op.name = "flush"
    /\ \A n \in {"B", "C", "D"} : RunCount(recomputed, n) = 1
    /\ Range(dependencies["D"]) = {"A", "C"}
    /\ Range(dependents["A"]) = {"B", "D"}
    /\ dependents["B"] = <<"C">>
    /\ dependents["C"] = <<"D">>

\* --------------------------------------------------------------- claim C20
\* C20: dispose is entered for a state only when the state has no
\* subscriber and no dependent and, if it is computed or hybrid, no
\* dependency.
C20_DisposeOnlyUnreferenced ==
    \A i \in 1..Len(disposed) :
        /\ disposed[i].subscribers = 0
        /\ disposed[i].dependents = 0
        /\ HasRecompute(disposed[i].node) => disposed[i].dependencies = 0

\* the last subscriber of a plain state nobody reads has unsubscribed, and
\* dispose ran
C20_Witness ==
    /\ op.name = "unsubscribe"
    /\ Kind(op.node) = "plain"
    /\ Len(disposed) = 1
    /\ disposed[1].node = op.node
    /\ Len(subscribers[op.node]) = 0
    /\ Len(dependents[op.node]) = 0

\* --------------------------------------------------------------- claim C21
\* C21: the unsubscribe that removes the last subscriber of a state that
\* has a dependent runs no dispose and leaves the dependents and the
\* dependencies of all states as they were; and a flush after a changing
\* set of a plain state without subscribers recomputes every dependent of
\* the state once and calls each subscriber of the dependent once.
C21_Step ==
    (/\ op'.name = "unsubscribe"
     /\ Len(subscribers'[op'.node]) = 0
     /\ Len(dependents[op'.node]) >= 1) =>
        /\ UNCHANGED <<dependents, dependencies>>
        /\ disposed' = <<>>

C21_StillPropagates ==
    op.name = "flush" =>
        \A a \in DOMAIN op.arg.written :
            (op.arg.written[a].changed /\ Len(subscribers[a]) = 0) =>
                \A b \in Range(dependents[a]) :
                    /\ RunCount(recomputed, b) = 1
                    /\ \A fn \in Range(subscribers[b]) : CallCount(calls, b, fn) = 1

C21_SurvivesLastUnsubscribe == [] C21_StillPropagates /\ [][C21_Step]_vars

\* the only subscriber of a state with dependents has unsubscribed; the
\* edges are in place and no dispose ran
C21_Witness ==
    /\ op.name = "unsubscribe"
    /\ Len(subscribers[op.node]) = 0
    /\ Len(dependents[op.node]) >= 1
    /\ disposed = <<>>
    /\ \A b \in Range(dependents[op.node]) : op.node \in Range(dependencies[b])

\* --------------------------------------------------------------- claim C22
\* C22: writing a field of an object the client holds (the object it passed
\* to createState or set, or the object get() returned) never changes the
\* value a state stores.
C22_ValueIsolated ==
    op.name = "mutate" => getValue(Engine, op.node) = op.old

\* --------------------------------------------------------------- claim C23
\* C23: no pending mark is lost.  After every operation, each mark made
\* during the operation is either still pending with a flush scheduled, or
\* was followed in the same flush by a call of every subscriber of the marked
\* node with the node's current value and by a recompute of each of its
\* dependents.
C23_MarkIsServed(i) ==
    \/ /\ events[i].node \in Range(pendingStates)
       /\ microtasks > 0
    \/ /\ \A fn \in Range(subscribers[events[i].node]) :
            \E j \in (i + 1)..Len(events) :
                events[j] = Event("call", events[i].node, fn, value[events[i].node], Null)
       /\ \A d \in Range(dependents[events[i].node]) :
            \E j \in (i + 1)..Len(events) :
                events[j].kind = "recompute" /\ events[j].node = d

C23_NoMarkLost ==
    \A i \in 1..Len(events) : events[i].kind = "mark" => C23_MarkIsServed(i)

\* --------------------------------------------------------------- claim C24
\* C24: the flush is a microtask.  No set call of a synchronous block calls a
\* subscriber, and when a macrotask callback of the client runs, every
\* changed write made before it has been flushed: nothing is pending and the
\* flush the write scheduled has run.
C24_Step ==
    op'.name \in {"set", "setHybrid"} => calls' = <<>>

C24_FlushedBeforeMacrotask ==
    /\ [](op.name = "immediate" =>
            /\ pendingStates = <<>>
            /\ ~isProcessingPending
            /\ \A n \in DOMAIN written : ~written[n].changed)
    /\ [][C24_Step]_vars

\* a macrotask callback runs right after a flush that called a subscriber
C24_Witness ==
    /\ op.name = "immediate"
    /\ \E i \in 1..Len(events) : events[i].kind = "wave"
    /\ \E i \in 1..Len(events) : events[i].kind = "call"

\* --------------------------------------------------------------- claim C25
\* C25: phase order inside a wave.  In every wave of a flush the recomputes
\* and the subscriber calls of computed and hybrid states all come before
\* any subscriber call of a plain state, dependents are enqueued only after
\* both, and every computed or hybrid state that was pending when the flush
\* started is recomputed, and its subscribers called, in the first wave.
C25_SameWave(i, j) == \A k \in i..j : events[k].kind # "wave"

C25_FirstPhase(e) ==
    e.kind = "recompute" \/ (e.kind = "call" /\ Kind(e.node) # "plain")

C25_SecondPhase(e) == e.kind = "call" /\ Kind(e.node) = "plain"

C25_PhaseOrder ==
    op.name = "flush" =>
        /\ \A i, j \in 1..Len(events) :
                (i < j /\ C25_SameWave(i, j)) =>
                    /\ ~(C25_SecondPhase(events[i]) /\ C25_FirstPhase(events[j]))
                    /\ ~(events[i].kind = "enqueue"
                            /\ (C25_FirstPhase(events[j]) \/ C25_SecondPhase(events[j])))
        /\ \A n \in Range(op.arg.pending) :
                HasRecompute(n) =>
                    \E i \in 2..Len(events) :
                        /\ events[i].kind = "recompute" /\ events[i].node = n
                        /\ C25_SameWave(2, i)
                        /\ \A fn \in Range(subscribers[n]) :
                            \E j \in (i + 1)..Len(events) :
                                /\ events[j].kind = "call" /\ events[j].node = n
                                /\ events[j].cb = fn
                                /\ C25_SameWave(i, j)

\* a wave that recomputes K and calls its subscriber, then calls the
\* subscriber of the plain A, then enqueues A's dependent B
C25_Witness ==
    /\ op.name = "flush"
    /\ \E i, j, k, l \in 1..Len(events) :
        /\ i < j /\ j < k /\ k < l /\ C25_SameWave(i, l)
        /\ events[i].kind = "recompute" /\ events[i].node = "K"
        /\ events[j].kind = "call" /\ events[j].node = "K"
        /\ events[k].kind = "call" /\ events[k].node = "A"
        /\ events[l].kind = "enqueue" /\ events[l].node = "B"

\* --------------------------------------------------------------- claim C26
\* C26: propagation is complete and has no change cut-off.  After a flush
\* that started with one plain state pending and nothing else, every state
\* that depends on it, directly or through other states, was recomputed
\* exactly once in the flush and each of its subscribers was called exactly
\* once, also when a state in between recomputed to the value it had.
C26_Step(ns) == ns \cup UNION {Range(dependents[m]) : m \in ns}

C26_Downstream(n) == C26_Step(C26_Step(C26_Step(Range(dependents[n]))))

C26_PropagationComplete ==
    (op.name = "flush" /\ Len(op.arg.pending) = 1 /\ Kind(op.arg.pending[1]) = "plain") =>
        \A n \in C26_Downstream(op.arg.pending[1]) :
            /\ RunCount(recomputed, n) = 1
            /\ \A fn \in Range(subscribers[n]) : CallCount(calls, n, fn) = 1

\* program cutoff: B recomputed to the value it held, C behind it was
\* recomputed and its subscriber called
C26_Witness ==
    /\ prog = "cutoff"
    /\ op.name = "flush" /\ op.arg.pending = <<"A">>
    /\ \E k \in 1..Len(recomputed) :
        recomputed[k].node = "B" /\ recomputed[k].raw = recomputed[k].old
    /\ "C" \in C26_Downstream("A")
    /\ RunCount(recomputed, "C") = 1
    /\ subscribers["B"] # <<>> /\ subscribers["C"] # <<>>
    /\ CallCount(calls, "C", subscribers["C"][1]) = 1

\* --------------------------------------------------------------- claim C27
\* C27 as stated: after a recompute of a computed state its dependencies are
\* exactly the states whose get() the run called.
C27_DependenciesAreReads ==
    \A k \in 1..Len(recomputed) :
        Range(dependencies[recomputed[k].node])
            = Range(ReadsOf(Engine, recomputed[k].node))

\* C27 amended: after a recompute of a computed state B its dependencies are
\* exactly the states other than B whose get() the run called, and exactly
\* those states have B among their dependents; a flush started by a write to
\* a plain state neither recomputes a state that is not downstream of it nor
\* calls that state's subscribers.
C27_DependenciesRebuilt ==
    /\ \A k \in 1..Len(recomputed) :
        /\ Range(dependencies[recomputed[k].node])
                = Range(ReadsOf(Engine, recomputed[k].node)) \ {recomputed[k].node}
        /\ \A m \in created :
                recomputed[k].node \in Range(dependents[m])
                    <=> m \in Range(dependencies[recomputed[k].node])
    /\ (op.name = "flush" /\ Len(op.arg.pending) = 1 /\ Kind(op.arg.pending[1]) = "plain") =>
            \A n \in created \ C26_Downstream(op.arg.pending[1]) :
                HasRecompute(n) =>
                    /\ RunCount(recomputed, n) = 0
                    /\ \A i \in 1..Len(calls) : calls[i].node # n

\* program switch: the flush after A went from 0 to 1 recomputed C with a
\* changed dependency sequence; C reads A only and left B's dependents
C27_Witness ==
    /\ prog = "switch"
    /\ op.name = "flush" /\ op.arg.pending = <<"A">>
    /\ \E k \in 1..Len(recomputed) : recomputed[k].node = "C" /\ ~recomputed[k].same
    /\ value["A"] = Prim(1)
    /\ dependencies["C"] = <<"A">>
    /\ dependents["B"] = <<>>
    /\ subscribers["C"] # <<>>

\* --------------------------------------------------------------- claim C28
\* C28: the computation context is saved and restored around every
\* recompute.  Between operations no computation is active; every subscriber
\* call is made with no computation active; when a compute function creates
\* a computed state, the reads of the inner run are dependencies of the
\* inner state only and the reads the outer function makes afterwards are
\* dependencies of the outer state; a get() outside a computation adds no
\* edge.
C28_Nested ==
    (op.name = "createComputedState" /\ Decl(op.node).inner # Null) =>
        /\ dependencies[Decl(op.node).inner] = Decl(Decl(op.node).inner).reads
        /\ dependencies[op.node] = Decl(op.node).reads
        /\ \A m \in Range(Decl(Decl(op.node).inner).reads) :
                /\ m \notin Range(dependencies[op.node])
                /\ dependents[m] = <<Decl(op.node).inner>>
        /\ dependents[Decl(op.node).inner] = <<op.node>>

C28_Step ==
    op'.name = "get" => (dependents' = dependents /\ dependencies' = dependencies)

C28_ContextRestored ==
    /\ [](/\ currentlyComputing = Null
          /\ \A i \in 1..Len(events) :
                /\ events[i].kind = "call" => events[i].ctx = Null
                /\ events[i].kind = "recompute" =>
                        events[i].ctx = (IF IsInner(events[i].node)
                                            /\ op.name = "createComputedState"
                                         THEN op.node ELSE Null)
          /\ C28_Nested)
    /\ [][C28_Step]_vars

\* program nested: D was created, its compute function created C inside;
\* C's run returned to D's context
C28_Witness ==
    /\ prog = "nested"
    /\ op.name = "createComputedState" /\ op.node = "D"
    /\ dependencies["C"] = <<"A">>
    /\ dependencies["D"] = <<"C">>
    /\ \E i \in 1..Len(events) :
        events[i].kind = "recompute" /\ events[i].node = "C" /\ events[i].ctx = "D"
    /\ currentlyComputing = Null

\* --------------------------------------------------------------- claim C29
\* C29: no self edge.  In every reachable state no state is in its own
\* dependents or in its own dependencies, also when its compute function
\* calls its own get().
C29_NoSelfEdge ==
    \A n \in Names :
        /\ n \notin Range(dependents[n])
        /\ n \notin Range(dependencies[n])

\* program selfread: a flush has recomputed the computed B and the hybrid H,
\* whose compute functions call their own get() before they read A
C29_Witness ==
    /\ prog = "selfread"
    /\ op.name = "flush"
    /\ RunCount(recomputed, "B") = 1
    /\ RunCount(recomputed, "H") = 1
    /\ Decl("B").reads[1] = "B" /\ Decl("H").reads[1] = "H"
    /\ dependencies["B"] = <<"A">>
    /\ dependencies["H"] = <<"A">>

\* --------------------------------------------------------------- claim C30
\* C30: every recompute of a computed state whose result differs from the
\* value the state held before the run marks the state pending, right after
\* that run, and leaves a flush scheduled.
C30_RunsBefore(i) == Cardinality({j \in 1..i : events[j].kind = "recompute"})

C30_ChangeIsMarked ==
    \A k \in 1..Len(recomputed) :
        (Kind(recomputed[k].node) = "computed"
            /\ StrictNotEqual(recomputed[k].old, recomputed[k].raw)) =>
                /\ \E i \in 1..Len(events) :
                        /\ events[i].kind = "mark"
                        /\ events[i].node = recomputed[k].node
                        /\ C30_RunsBefore(i) = k
                /\ microtasks > 0

\* --------------------------------------------------------------- claim C31
\* C31: every flush terminates.  When a flush has returned the pending set
\* is empty, the while loop ran at most (number of states + 1) times, and no
\* state was recomputed more than once, also when computed states depend on
\* each other in a cycle and when a hybrid state marks itself pending in
\* its recompute.
C31_Waves == Cardinality({i \in 1..Len(events) : events[i].kind = "wave"})

C31_FlushTerminates ==
    op.name = "flush" =>
        /\ pendingStates = <<>>
        /\ C31_Waves <= Cardinality(created) + 1
        /\ \A n \in created : RunCount(recomputed, n) <= 1

\* program cycle: B and C depend on each other, and the flush used all of
\* its (number of states + 1) iterations
C31_Witness ==
    /\ prog = "cycle"
    /\ op.name = "flush"
    /\ "C" \in Range(dependents["B"]) /\ "B" \in Range(dependents["C"])
    /\ RunCount(recomputed, "B") = 1 /\ RunCount(recomputed, "C") = 1
    /\ C31_Waves = Cardinality(created) + 1

\* --------------------------------------------------------------- claim C32
\* C32: eventual quiescence.  Unless the client goes on writing for ever,
\* the engine reaches a state with the pending set empty and no flush
\* scheduled and remains in such states; and a quiescent engine stays
\* quiescent through every step that is not a write.
C32_Quiescent ==
    pendingStates = <<>> /\ microtasks = 0 /\ ~isProcessingPending

C32_Write ==
    op'.name \in {"set", "setHybrid", "createState", "createComputedState",
                  "createHybridState"}

C32_Step == (C32_Quiescent /\ ~C32_Write) => C32_Quiescent'

C32_EventuallyQuiescent ==
    /\ ([]<><<C32_Write>>_vars) \/ (<>[]C32_Quiescent)
    /\ [][C32_Step]_vars

\* a flush that found nothing to do: it was queued by the marks a hybrid or
\* computed recompute made inside the flush before it
C32_Witness ==
    /\ op.name = "flush"
    /\ op.arg.pending = <<>>
    /\ events = <<>>
    /\ C32_Quiescent

\* --------------------------------------------------------------- claim C33
\* C33: scheduler flag.  At most one flush callback is queued, and
\* isProcessingPending is true exactly when one is queued.  The flush
\* resets the flag when it starts: a flush in which a state was marked ends
\* with one callback queued, a flush without marks with none.
C33_Marked == \E i \in 1..Len(events) : events[i].kind = "mark"

C33_FlagMatchesQueue ==
    /\ microtasks \in {0, 1}
    /\ isProcessingPending <=> microtasks = 1
    /\ op.name = "flush" => (C33_Marked <=> microtasks = 1)

\* a flush in which a hybrid recompute marked its state: one new callback
\* is queued and the flag is true again
C33_Witness ==
    /\ op.name = "flush"
    /\ \E i \in 1..Len(events) :
        events[i].kind = "mark" /\ Kind(events[i].node) = "hybrid"
    /\ microtasks = 1
    /\ isProcessingPending
    /\ pendingStates = <<>>

\* --------------------------------------------------------------- claim C34
\* C34: no lost wake-up.  Between two operations no flush is running; in
\* every such state with a non-empty pending set a flush callback is queued
\* and the flush-scheduled flag is true.
C34_NoLostWakeup ==
    pendingStates # <<>> => (isProcessingPending /\ microtasks > 0)

\* two plain states were set one after the other: both wait in the pending
\* set for the one flush callback the first set queued
C34_Witness ==
    /\ op.name = "set"
    /\ Len(pendingStates) = 2
    /\ op.node = pendingStates[2]
    /\ isProcessingPending
    /\ microtasks = 1

\* --------------------------------------------------------------- claim C35
\* the step calls an unsubscribe function
C35_Unsub == op'.name \in {"unsubscribe", "unsubscribeAgain"}

\* the step leaves every dependencies and dependents set as it was and
\* removes at most the callback of the unsubscribe function
C35_GraphFrame ==
    C35_Unsub =>
        /\ dependencies' = dependencies
        /\ dependents' = dependents
        /\ subscribers' = [subscribers EXCEPT ![op'.node] = SetDelete(@, op'.cb)]

\* the step changes nothing of the engine
C35_Idle ==
    /\ subscribers' = subscribers
    /\ dependencies' = dependencies
    /\ dependents' = dependents
    /\ value' = value
    /\ lastDeps' = lastDeps
    /\ manualOverride' = manualOverride
    /\ pendingStates' = pendingStates
    /\ isProcessingPending' = isProcessingPending
    /\ microtasks' = microtasks

\* C35: unsubscribing never changes the dependency graph.  A call of an
\* unsubscribe function, with or without dispose, leaves the dependencies
\* and dependents of all states unchanged and removes no subscriber other
\* than its callback; a second call of the same function changes nothing,
\* unless the callback was subscribed to the state again after the first
\* call.
C35_UnsubscribeFrame ==
    [][/\ C35_GraphFrame
       /\ (op'.name = "unsubscribeAgain" /\ op.name # "resubscribe") => C35_Idle]_vars

\* C35 as stated: a second call of the same unsubscribe function changes
\* nothing, whatever happened after the first call.
C35_SecondCallIdle ==
    [][/\ C35_GraphFrame
       /\ op'.name = "unsubscribeAgain" => C35_Idle]_vars

\* an unsubscribe function was called a second time and ran dispose again,
\* next to a state that has dependents and a subscriber of its own
C35_Witness ==
    /\ op.name = "unsubscribeAgain"
    /\ op.old # "resubscribe"
    /\ ~op.changed
    /\ disposed # <<>>
    /\ \E m \in created \ {op.node} :
        dependents[m] # <<>> /\ subscribers[m] # <<>>

=============================================================================
